---- MODULE Spec2Model ----
(***************************************************************************)
(* A model of the engine-trait HTTP service: serve_engine wraps one Engine *)
(* in Arc<Mutex<E>>, and every POST runs handle_move, which drives the     *)
(* engine through observe_move, propose_move and observe_move.             *)
(*                                                                         *)
(* The chess library (shakmaty) is outside the repository.  It is          *)
(* abstracted by a small race game: a position is the square a single      *)
(* token stands on (0..MaxPos), a Move carries its origin and destination, *)
(* a Uci carries only the distance travelled, and a move is legal when it  *)
(* starts on the token's square and stays on the board.                    *)
(***************************************************************************)
EXTENDS Integers, Sequences, FiniteSets, TLC

\* ---------------------------------------------------------------- bounds
NumReq == 2
NumEngines == 2
MaxPos == 2
MaxRand == 1
MaxState == 1

Slots == 1..NumReq
Engines == 1..NumEngines
Positions == 0..MaxPos
RandVals == 0..MaxRand
States == 0..MaxState
Errors == {"E1", "E2"}
Infos == {"i1", "i2"}

\* ------------------------------------------------------- Option<T> values
None == << >>
Some(v) == << v >>
IsSome(o) == o # None
Unwrap(o) == o[1]
OptRand == {None} \cup {Some(v) : v \in RandVals}

\* ------------------------------------------------------------ chess types
UciNull == [null |-> TRUE, d |-> 0]
UciNormal(d) == [null |-> FALSE, d |-> d]
Ucis == {UciNull} \cup {UciNormal(d) : d \in 1..MaxPos}

Moves == {m \in [from : Positions, to : Positions] : m.from < m.to}
NoMove == [from |-> 0, to |-> 0]

\* Move::to_uci: the origin square is dropped, only the distance is kept.
to_uci(m) == UciNormal(m.to - m.from)

\* A parse that does not check the move against the position.
to_move_unchecked(uci, pos) ==
    [ok |-> ~uci.null, move |-> [from |-> pos, to |-> pos + uci.d]]

\* Uci::to_move(&position): Ok(move) when the move is legal in the position.
to_move(uci, pos) ==
    IF ~uci.null /\ uci.d >= 1 /\ pos + uci.d <= MaxPos
    THEN [ok |-> TRUE, move |-> [from |-> pos, to |-> pos + uci.d]]
    ELSE [ok |-> FALSE, move |-> NoMove]

\* An application of the caller's move that leaves the position as it was.
play_unchecked_stale(pos, m) == pos

\* Position::play_unchecked(&move): applies a move without checking it.
play_unchecked(pos, m) == m.to

\* A play that applies whatever it is given.
play_lenient(pos, m) == [ok |-> TRUE, pos |-> m.to]

\* A play that checks the move and forgets to apply it.
play_in_place(pos, m) ==
    [ok |-> m.from = pos /\ m.to > pos /\ m.to <= MaxPos, pos |-> pos]

\* Position::play(&move): Ok(position after) when the move is legal.
play(pos, m) ==
    IF m.from = pos /\ m.to > pos /\ m.to <= MaxPos
    THEN [ok |-> TRUE, pos |-> m.to]
    ELSE [ok |-> FALSE, pos |-> pos]

\* ---------------------------------------------------------- protocol types
EngineRequest ==
    [move : Ucis, game_before : Positions, engine_state : States,
     observe_mine_rand : OptRand, produce_rand : OptRand,
     observe_your_rand : OptRand, with_status_info : BOOLEAN]

PositionMoveMismatch == [kind |-> "PositionMoveMismatch"]
EngineSentIllegalMove(uci) == [kind |-> "EngineSentIllegalMove", move |-> uci]

\* A response that reports the two generated-or-supplied seeds crosswise.
EngineResponseCrossed(mv, ga, si, oo, pr, om, st) ==
    [move |-> mv, game_after |-> ga, status_info |-> si,
     observe_other_rand_used |-> oo, produce_rand_used |-> om,
     observe_mine_rand_used |-> pr, engine_state |-> st]

EngineResponse(mv, ga, si, oo, pr, om, st) ==
    [move |-> mv, game_after |-> ga, status_info |-> si,
     observe_other_rand_used |-> oo, produce_rand_used |-> pr,
     observe_mine_rand_used |-> om, engine_state |-> st]

RequestError(what) == [tag |-> "RequestError", what |-> what]
EngineError(why) == [tag |-> "EngineError", why |-> why]
Ok(response) == [tag |-> "Ok", response |-> response]
NoResult == [tag |-> "NoResult"]

\* ------------------------------------------------------ transport responses
\* No response has been sent.
NoResponse == [status |-> 0]

\* Display of an engine's Error, as `what.to_string()` renders it.
to_string(why) ==
    CASE why = "E1" -> "state disagrees with position"
      [] why = "E2" -> "search failed"
      [] OTHER -> "engine error"

\* An engine failure answered as a bad request.
into_response_blaming_caller(res) ==
    CASE res.tag = "RequestError" -> [status |-> 400, body |-> res.what]
      [] res.tag = "EngineError" ->
            [status |-> 400, body |-> [error_text |-> to_string(res.why)]]
      [] OTHER -> [status |-> 200, body |-> res.response]

\* IntoResponse for EngineResult.
into_response(res) ==
    CASE res.tag = "RequestError" -> [status |-> 400, body |-> res.what]
      [] res.tag = "EngineError" ->
            [status |-> 500, body |-> [error_text |-> to_string(res.why)]]
      [] OTHER -> [status |-> 200, body |-> res.response]

\* ------------------------------------------------------- the Engine trait
\* What a call hands to the engine.
ObserveCall(rand, state, m, pos) ==
    [op |-> "observe_move", rand |-> rand, state |-> state, move |-> m, pos |-> pos]
\* A propose step whose two branches are exchanged.
ProposeCallExchanged(withInfo, rand, state, pos) ==
    [op |-> IF withInfo THEN "propose_move_without_info" ELSE "propose_move",
     rand |-> rand, state |-> state, move |-> NoMove, pos |-> pos]

ProposeCall(withInfo, rand, state, pos) ==
    [op |-> IF withInfo THEN "propose_move" ELSE "propose_move_without_info",
     rand |-> rand, state |-> state, move |-> NoMove, pos |-> pos]

\* What a call may return: Result<(), Error> with the state updated in place,
\* Result<(Move, StatusInfo), Error>, Result<Move, Error>.
ObserveOutcomes ==
    [ok : {TRUE}, state : States] \cup [ok : {FALSE}, why : Errors]
ProposeOutcomes ==
    [ok : {TRUE}, move : Moves, info : Infos] \cup [ok : {FALSE}, why : Errors]
ProposeWithoutInfoOutcomes ==
    [ok : {TRUE}, move : Moves] \cup [ok : {FALSE}, why : Errors]

VARIABLES
    run,      \* per request slot: the locals of its handle_move future
    mutex,    \* per engine instance: TRUE while the tokio Mutex is locked
    calls,    \* per slot: the engine calls it has begun, in order
    rets,     \* per slot: what those calls returned, in order
    result,   \* per slot: the EngineResult handle_move returned
    http,     \* per slot: the transport response made of that result
    metadata, \* per engine instance: the last reply to a GET / request
    clients,  \* who sends requests: "concurrent", "one" or "twin" clients
    budget,   \* how many requests clients will still send
    det,      \* TRUE when the engine is deterministic (lib.rs, Statefulness)
    memo      \* a deterministic engine's answers so far: <<call, outcome>>

vars == << run, mutex, calls, rets, result, http, metadata, clients, budget, det,
          memo >>


\* ------------------------------------------------------------------ Init
\* The locals of a handle_move future that has not started.
IdleRun ==
    [pc |-> "idle", e |-> 1,
     request |-> [move |-> UciNull, game_before |-> 0, engine_state |-> 0,
                  observe_mine_rand |-> None, produce_rand |-> None,
                  observe_your_rand |-> None, with_status_info |-> FALSE],
     state |-> 0, user_move |-> NoMove, game_after |-> 0,
     observe_other_rand_used |-> None, produce_rand_used |-> 0,
     observe_mine_rand_used |-> 0, proposed_move |-> NoMove, info |-> None,
     game_after_mine |-> 0, guard |-> FALSE]

\* serve_engine: a fresh, unlocked Mutex around each engine; no request yet.
Served ==
    /\ run = [r \in Slots |-> IdleRun]
    /\ mutex = [e \in Engines |-> FALSE]
    /\ calls = [r \in Slots |-> << >>]
    /\ rets = [r \in Slots |-> << >>]
    /\ result = [r \in Slots |-> NoResult]
    /\ http = [r \in Slots |-> NoResponse]
    /\ metadata = [e \in Engines |-> NoResponse]
    /\ memo = {}

\* The concurrent specification keeps its data on the first three squares
\* and the first two states, whatever the bounds, so that the number of
\* requests in flight is what grows with them.
ConcurrentMoves == {[from |-> 0, to |-> 1], [from |-> 1, to |-> 2]}
ConcurrentOutcomes ==
    [ok : {TRUE}, state : {0, 1}] \cup [ok : {TRUE}, move : ConcurrentMoves]
        \cup [ok : {TRUE}, move : ConcurrentMoves, info : Infos]
        \cup [ok : {FALSE}, why : {"E1"}]

\* The requests of the concurrent specification: a null move or a step of
\* one from the first square, all seeds supplied.
ConcurrentRequests ==
    {q \in EngineRequest :
        /\ q.move \in {UciNull, UciNormal(1)}
        /\ q.game_before = 0
        /\ q.engine_state = 0
        /\ ~q.with_status_info
        /\ q.observe_mine_rand = Some(0)
        /\ q.produce_rand = Some(0)
        /\ q.observe_your_rand = Some(0)}

\* The requests of the twin specification: both squares a game can go on
\* from, the seeds of the two observations supplied, the seed of the propose
\* call supplied or generated.
TwinRequests ==
    {q \in EngineRequest :
        /\ q.game_before \in {0, 1}
        /\ q.engine_state = 0
        /\ q.observe_mine_rand = Some(0)
        /\ q.produce_rand \in {None, Some(1)}
        /\ q.observe_your_rand = Some(1)}

\* The requests a replaying client sends first: any move on either square a
\* game can go on from, each seed omitted or supplied.
ReplayOriginals ==
    {q \in EngineRequest :
        /\ q.game_before \in {0, 1}
        /\ q.engine_state = 0
        /\ q.observe_mine_rand \in {None, Some(1)}
        /\ q.produce_rand \in {None, Some(0)}
        /\ q.observe_your_rand \in {None, Some(1)}}

\* The request a client replays a Response with: the original request with
\* its three seeds set to the seeds the Response reports as used.
Replay(request, response) ==
    [request EXCEPT
        !.observe_mine_rand = response.observe_other_rand_used,
        !.produce_rand = Some(response.produce_rand_used),
        !.observe_your_rand = Some(response.observe_mine_rand_used)]

\* Concurrent clients, any engine.
Init ==
    /\ Served
    /\ clients = "concurrent"
    /\ budget = NumReq
    /\ det = FALSE

\* One client sending one request, drawn from every request there is.
InitOne ==
    /\ Served
    /\ clients = "one"
    /\ budget = 1
    /\ det = FALSE

\* A client that sends a request to a deterministic engine and replays the
\* Response it gets.
InitReplay ==
    /\ Served
    /\ clients = "replay"
    /\ budget = 2
    /\ det = TRUE

\* Two clients sending the same request to a deterministic engine.
InitTwin ==
    /\ Served
    /\ clients = "twin"
    /\ budget = 2
    /\ det = TRUE

\* ---------------------------------------------------------------- helpers
\* The engine instances a new request may be sent to.  Slots and engines are
\* numbered in the order requests first reach them.
NextEngines ==
    {e \in Engines :
        \A d \in Engines : d < e => \E s \in Slots : run[s].pc # "idle" /\ run[s].e = d}

\* The requests a client may send next.  Twin clients replay one request:
\* each sends what the requests already started were sent.
Pool ==
    CASE clients = "concurrent" -> ConcurrentRequests
      [] clients = "one" -> EngineRequest
      [] clients = "replay" ->
            IF \A s \in Slots : run[s].pc = "idle"
            THEN ReplayOriginals
            ELSE {Replay(run[s].request, result[s].response) :
                    s \in {t \in Slots : result[t].tag = "Ok"}}
      [] OTHER -> {q \in TwinRequests :
                     \A s \in Slots : run[s].pc # "idle" => run[s].request = q}

\* A seed that is always drawn afresh.
SeedDrawn(supplied, drawn) == drawn

\* `request.x.unwrap_or_else(rand::random)`: the supplied seed, else a drawn one.
SeedFor(supplied, drawn) == IF IsSome(supplied) THEN Unwrap(supplied) ELSE drawn

\* A null-move branch that echoes the seed the request carried.
EchoedObserveSeed(request) == request.observe_mine_rand

\* The null-move branch records no seed for observing the caller's move.
SkippedObserveSeed(request) == None

\* A lock that is granted whether or not the mutex is held.
CanLockAlways(e) == TRUE

\* tokio's Mutex::lock().await resolves only while the mutex is unlocked.
CanLock(e) == ~mutex[e]

\* A guard that is leaked at the end of its block: the mutex stays locked.
GuardLeaked(e) == mutex

\* Dropping the MutexGuard at the end of its block unlocks the mutex.
Unlock(e) == [mutex EXCEPT ![e] = FALSE]

\* The outcomes among `all` that the engine of this specification may return.
Outcomes(all) ==
    IF clients = "concurrent" THEN all \cap ConcurrentOutcomes ELSE all

\* What the engine answers: anything for an arbitrary engine; for a
\* deterministic one the same outcome as before for the same call.
EngineAnswers(call, out) ==
    IF det
    THEN /\ \A p \in memo : p[1] = call => p[2] = out
         /\ memo' = memo \cup {<< call, out >>}
    ELSE memo' = memo

\* What handle_move returned, if it has returned, turned into the transport
\* response by the router.
Respond(r) ==
    http' = [http EXCEPT ![r] = IF result'[r] = NoResult
                                THEN NoResponse ELSE into_response(result'[r])]

\* A state kept with the engine instead of with the request: every request
\* on an engine instance passes the state of the first request sent to it.
StatePassedShared(r) ==
    run[CHOOSE s \in Slots :
            /\ run[s].pc # "idle" /\ run[s].e = run[r].e
            /\ \A t \in Slots :
                  (run[t].pc # "idle" /\ run[t].e = run[r].e) => s <= t].state

\* The state an engine call is passed: the local `state` of this run.
StatePassed(r) == run[r].state

\* The call a slot is inside of.
CurrentCall(r) == calls[r][Len(calls[r])]

\* An engine failure reported as the caller's mistake.
FailedAsRequestError(why) == RequestError(PositionMoveMismatch)

\* The EngineResult of an engine call that failed.
Failed(why) == EngineError(why)

\* ---------------------------------------------------------------- actions
\* handle_move from its entry to its first suspension point.
Start(r) ==
    /\ run[r].pc = "idle"
    /\ \A s \in Slots : s < r => run[s].pc # "idle"
    /\ budget > 0
    /\ budget' = budget - 1
    /\ \E request \in Pool, e \in NextEngines, drawn \in RandVals :
         LET their_move == request.move
             parsed == to_move(their_move, request.game_before)
             begun == [run[r] EXCEPT !.e = e, !.request = request,
                                     !.state = request.engine_state]
         IN IF their_move # UciNull
            THEN IF ~parsed.ok
                 THEN /\ run' = [run EXCEPT ![r] = [begun EXCEPT !.pc = "done"]]
                      /\ result' = [result EXCEPT
                                      ![r] = RequestError(PositionMoveMismatch)]
                 ELSE /\ run' = [run EXCEPT ![r] =
                            [begun EXCEPT
                               !.pc = "lock_observe_other",
                               !.user_move = parsed.move,
                               !.game_after =
                                   play_unchecked(request.game_before, parsed.move),
                               !.observe_other_rand_used =
                                   Some(SeedFor(request.observe_mine_rand, drawn))]]
                      /\ UNCHANGED result
            ELSE /\ run' = [run EXCEPT ![r] =
                       [begun EXCEPT
                          !.pc = "lock_propose",
                          !.game_after = request.game_before,
                          !.observe_other_rand_used = SkippedObserveSeed(request),
                          !.produce_rand_used =
                              SeedFor(request.produce_rand, drawn)]]
                 /\ UNCHANGED result
    /\ Respond(r)
    /\ UNCHANGED << mutex, calls, rets, clients, det, memo, metadata >>

\* `e.lock().await` resolves and observe_move is called for the caller's move.
LockObserveOther(r) ==
    /\ run[r].pc = "lock_observe_other"
    /\ CanLock(run[r].e)
    /\ mutex' = [mutex EXCEPT ![run[r].e] = TRUE]
    /\ run' = [run EXCEPT ![r] = [@ EXCEPT !.pc = "observe_other", !.guard = TRUE]]
    /\ calls' = [calls EXCEPT ![r] =
                    Append(@, ObserveCall(Unwrap(run[r].observe_other_rand_used),
                                          StatePassed(r), run[r].user_move,
                                          run[r].game_after))]
    /\ UNCHANGED << rets, result, http, metadata, clients, budget, det, memo >>

\* observe_move returns; on success the code runs on to the next lock().await.
ObserveOtherReturn(r) ==
    /\ run[r].pc = "observe_other"
    /\ \E out \in Outcomes(ObserveOutcomes), drawn \in RandVals :
         /\ EngineAnswers(CurrentCall(r), out)
         /\ rets' = [rets EXCEPT ![r] = Append(@, out)]
         /\ IF ~out.ok
            THEN /\ run' = [run EXCEPT ![r] =
                              [@ EXCEPT !.pc = "done", !.guard = FALSE]]
                 /\ result' = [result EXCEPT ![r] = Failed(out.why)]
            ELSE /\ run' = [run EXCEPT ![r] =
                       [@ EXCEPT
                          !.pc = "lock_propose",
                          !.guard = FALSE,
                          !.state = out.state,
                          !.produce_rand_used =
                              SeedFor(run[r].request.produce_rand, drawn)]]
                 /\ UNCHANGED result
    /\ mutex' = Unlock(run[r].e)
    /\ Respond(r)
    /\ UNCHANGED << calls, metadata, clients, budget, det >>

\* `e.lock().await` resolves and propose_move(_without_info) is called.
LockPropose(r) ==
    /\ run[r].pc = "lock_propose"
    /\ CanLock(run[r].e)
    /\ mutex' = [mutex EXCEPT ![run[r].e] = TRUE]
    /\ run' = [run EXCEPT ![r] = [@ EXCEPT !.pc = "propose", !.guard = TRUE]]
    /\ calls' = [calls EXCEPT ![r] =
                    Append(@, ProposeCall(run[r].request.with_status_info,
                                          run[r].produce_rand_used,
                                          StatePassed(r), run[r].game_after))]
    /\ UNCHANGED << rets, result, http, metadata, clients, budget, det, memo >>

\* The propose call returns; the proposed move is validated with play().
ProposeReturn(r) ==
    /\ run[r].pc = "propose"
    /\ \E out \in Outcomes(IF run[r].request.with_status_info
                           THEN ProposeOutcomes ELSE ProposeWithoutInfoOutcomes),
          drawn \in RandVals :
         /\ EngineAnswers(CurrentCall(r), out)
         /\ rets' = [rets EXCEPT ![r] = Append(@, out)]
         /\ IF ~out.ok
            THEN /\ run' = [run EXCEPT ![r] =
                              [@ EXCEPT !.pc = "done", !.guard = FALSE]]
                 /\ result' = [result EXCEPT ![r] = Failed(out.why)]
            ELSE LET info == IF run[r].request.with_status_info
                             THEN Some(out.info) ELSE None
                     seed == SeedFor(run[r].request.observe_your_rand, drawn)
                     played == play(run[r].game_after, out.move)
                     proposed == [run[r] EXCEPT
                                    !.guard = FALSE,
                                    !.proposed_move = out.move,
                                    !.info = info,
                                    !.observe_mine_rand_used = seed]
                 IN IF ~played.ok
                    THEN /\ run' = [run EXCEPT ![r] =
                                      [proposed EXCEPT !.pc = "done"]]
                         /\ result' = [result EXCEPT ![r] =
                               RequestError(EngineSentIllegalMove(to_uci(out.move)))]
                    ELSE /\ run' = [run EXCEPT ![r] =
                                      [proposed EXCEPT
                                         !.pc = "lock_observe_mine",
                                         !.game_after_mine = played.pos]]
                         /\ UNCHANGED result
    /\ mutex' = Unlock(run[r].e)
    /\ Respond(r)
    /\ UNCHANGED << calls, metadata, clients, budget, det >>

\* `e.lock().await` resolves and observe_move is called for the engine's move.
LockObserveMine(r) ==
    /\ run[r].pc = "lock_observe_mine"
    /\ CanLock(run[r].e)
    /\ mutex' = [mutex EXCEPT ![run[r].e] = TRUE]
    /\ run' = [run EXCEPT ![r] = [@ EXCEPT !.pc = "observe_mine", !.guard = TRUE]]
    /\ calls' = [calls EXCEPT ![r] =
                    Append(@, ObserveCall(run[r].observe_mine_rand_used,
                                          StatePassed(r), run[r].proposed_move,
                                          run[r].game_after_mine))]
    /\ UNCHANGED << rets, result, http, metadata, clients, budget, det, memo >>

\* observe_move returns; on success the response is constructed.
ObserveMineReturn(r) ==
    /\ run[r].pc = "observe_mine"
    /\ \E out \in Outcomes(ObserveOutcomes) :
         /\ EngineAnswers(CurrentCall(r), out)
         /\ rets' = [rets EXCEPT ![r] = Append(@, out)]
         /\ IF ~out.ok
            THEN /\ run' = [run EXCEPT ![r] =
                              [@ EXCEPT !.pc = "done", !.guard = FALSE]]
                 /\ result' = [result EXCEPT ![r] = Failed(out.why)]
            ELSE /\ run' = [run EXCEPT ![r] =
                              [@ EXCEPT !.pc = "done", !.guard = FALSE,
                                        !.state = out.state]]
                 /\ result' = [result EXCEPT ![r] =
                       Ok(EngineResponse(to_uci(run[r].proposed_move),
                                         run[r].game_after_mine,
                                         run[r].info,
                                         run[r].observe_other_rand_used,
                                         run[r].produce_rand_used,
                                         run[r].observe_mine_rand_used,
                                         out.state))]
    /\ mutex' = Unlock(run[r].e)
    /\ Respond(r)
    /\ UNCHANGED << calls, metadata, clients, budget, det >>

\* The suspension points of handle_move: every `.await`.
Suspended(r) ==
    run[r].pc \in {"lock_observe_other", "observe_other", "lock_propose",
                   "propose", "lock_observe_mine", "observe_mine"}

\* A dropped future that unlocks the mutex whether or not it held the guard.
MutexUnlockedAfterDrop(r) == Unlock(run[r].e)

\* A dropped future whose guard is leaked: the mutex stays as it was.
MutexKeptAfterDrop(r) == mutex

\* The mutex after a future is dropped: a guard it held is dropped with it.
MutexAfterDrop(r) == IF run[r].guard THEN Unlock(run[r].e) ELSE mutex

\* The caller goes away and the handle_move future is dropped where it waits.
Cancel(r) ==
    /\ Suspended(r)
    /\ run' = [run EXCEPT ![r] = [@ EXCEPT !.pc = "dropped", !.guard = FALSE]]
    /\ mutex' = MutexAfterDrop(r)
    /\ UNCHANGED << calls, rets, result, http, metadata, clients, budget, det, memo >>

Next ==
    \E r \in Slots :
        \/ Start(r)
        \/ LockObserveOther(r)
        \/ ObserveOtherReturn(r)
        \/ LockPropose(r)
        \/ ProposeReturn(r)
        \/ LockObserveMine(r)
        \/ ObserveMineReturn(r)
        \/ Cancel(r)

\* `E::get_info()`: an associated function without `self`; its output is
\* the same whatever any engine instance has been through.
get_info == [id |-> "race", description |-> "moves one square", initial_state |-> 0]

\* A metadata handler that locks the engine before it answers.
GetInfoReadyWhenUnlocked(e) == ~mutex[e]

\* What get_info waits for: it ignores its state argument (`State(_)`) and
\* has no await.
GetInfoReady(e) == TRUE

\* GET /: the metadata query, answered with 200 and Json(E::get_info()).
GetInfo(e) ==
    /\ GetInfoReady(e)
    /\ metadata' = [metadata EXCEPT ![e] = [status |-> 200, body |-> get_info]]
    /\ UNCHANGED << run, mutex, calls, rets, result, http, clients, budget, det, memo >>

\* Move requests together with metadata queries.
NextInfo ==
    \/ Next
    \/ \E e \in Engines : GetInfo(e)

\* Two concurrent clients, whatever the bounds.
InitPair ==
    /\ Served
    /\ clients = "concurrent"
    /\ budget = 2
    /\ det = FALSE

Spec == Init /\ [][Next]_vars
SpecInfo == InitPair /\ [][NextInfo]_vars

\* What the scheduling gives a run: an engine call that has begun returns
\* (the engine is assumed to return), and tokio's Mutex grants the lock
\* fairly, so that a run which can take it again and again does take it.
\* Nothing obliges a client to send a request or to abandon one.
Fairness ==
    \A r \in Slots :
        /\ WF_vars(ObserveOtherReturn(r))
        /\ WF_vars(ProposeReturn(r))
        /\ WF_vars(ObserveMineReturn(r))
        /\ SF_vars(LockObserveOther(r))
        /\ SF_vars(LockPropose(r))
        /\ SF_vars(LockObserveMine(r))

SpecLive == InitPair /\ [][Next]_vars /\ Fairness
SpecOne == InitOne /\ [][Next]_vars
SpecTwin == InitTwin /\ [][Next]_vars
SpecReplay == InitReplay /\ [][Next]_vars

\* ------------------------------------------------- vocabulary of the claims
Started(r) == run[r].pc # "idle"
Ended(r) == run[r].pc \in {"done", "dropped"}
InCall(r) == run[r].pc \in {"observe_other", "propose", "observe_mine"}
WaitsForLock(r) ==
    run[r].pc \in {"lock_observe_other", "lock_propose", "lock_observe_mine"}
SameEngine(r, s) == Started(r) /\ Started(s) /\ run[r].e = run[s].e

C10_OneCallAtATime ==
    /\ \A r \in Slots :
          /\ InCall(r) => (run[r].guard /\ mutex[run[r].e])
          /\ run[r].guard => InCall(r)
    /\ \A e \in Engines :
          /\ Cardinality({r \in Slots : run[r].guard /\ run[r].e = e}) <= 1
          /\ Cardinality({r \in Slots : InCall(r) /\ run[r].e = e}) <= 1

\* A request inside an engine call while another request on the same engine
\* waits for the lock.
C10_Witness ==
    \E r, s \in Slots :
        /\ r # s /\ SameEngine(r, s)
        /\ InCall(r) /\ run[r].guard
        /\ WaitsForLock(s)

\* ------------------------------------------ chess vocabulary of the claims
\* A move token is legal in a position when some move of the game starts
\* there and is written as that token.
LegalIn(uci, pos) == \E m \in Moves : m.from = pos /\ to_uci(m) = uci
LegalMoveIn(m, pos) == m \in Moves /\ m.from = pos

\* The caller's move as a move of the game, and the position after it (the
\* position itself for a null move).
CallerMove(q) == [from |-> q.game_before, to |-> q.game_before + q.move.d]
GameAfter(q) == IF q.move = UciNull THEN q.game_before ELSE q.game_before + q.move.d

\* How many calls come before the propose call: the observation of the
\* caller's move, unless the move is null.
Before(q) == IF q.move = UciNull THEN 0 ELSE 1
IsPropose(call) == call.op \in {"propose_move", "propose_move_without_info"}
IsObserve(call) == call.op = "observe_move"

\* ---------------------------------------------------------------------- C2
\* C2: a move that is not null and not legal in game_before ends the run with
\* RequestError(PositionMoveMismatch); no engine call is made and the lock is
\* never taken.
C2_IllegalMoveRejected ==
    \A r \in Slots :
        LET q == run[r].request IN
        (Started(r) /\ q.move # UciNull /\ ~LegalIn(q.move, q.game_before))
            => /\ run[r].pc = "done"
               /\ result[r] = RequestError(PositionMoveMismatch)
               /\ calls[r] = << >>
               /\ ~run[r].guard

\* An illegal move was submitted and rejected, on a board where a shorter
\* step would have been legal.
C2_Witness ==
    \E r \in Slots :
        LET q == run[r].request IN
        /\ Started(r) /\ q.move # UciNull /\ ~LegalIn(q.move, q.game_before)
        /\ LegalIn(UciNormal(1), q.game_before)
        /\ result[r] = RequestError(PositionMoveMismatch)

\* ---------------------------------------------------------------------- C3
\* C3: with a null move the first engine call is the propose call, made with
\* the request's engine_state and game_before; every observe_move of the run
\* is for the engine's own move; a Response has observe_other_rand_used =
\* None.  With any other move a Response has observe_other_rand_used present.
C3_NullMoveSkipsObserve ==
    \A r \in Slots :
        LET q == run[r].request IN
        Started(r) =>
            /\ q.move = UciNull =>
                  /\ calls[r] # << >> =>
                        /\ IsPropose(calls[r][1])
                        /\ calls[r][1].state = q.engine_state
                        /\ calls[r][1].pos = q.game_before
                  /\ \A i \in DOMAIN calls[r] :
                        IsObserve(calls[r][i]) =>
                            i = 2 /\ calls[r][i].move = rets[r][1].move
                  /\ result[r].tag = "Ok" =>
                        result[r].response.observe_other_rand_used = None
            /\ (q.move # UciNull /\ result[r].tag = "Ok") =>
                  IsSome(result[r].response.observe_other_rand_used)

\* A null-move request that supplied a seed for observing the caller's move
\* and was answered with a Response.
C3_Witness ==
    \E r \in Slots :
        /\ run[r].request.move = UciNull
        /\ IsSome(run[r].request.observe_mine_rand)
        /\ result[r].tag = "Ok"
        /\ Len(calls[r]) = 2

\* ---------------------------------------------------------------------- C4
\* C4: when the propose call returns a move that is not legal in the position
\* after the caller's move, the run ends with
\* RequestError(EngineSentIllegalMove) carrying that move, and the propose
\* call is the last engine call of the run.
C4_IllegalProposalRejected ==
    \A r \in Slots : \A i \in DOMAIN rets[r] :
        (/\ IsPropose(calls[r][i])
         /\ rets[r][i].ok
         /\ ~LegalMoveIn(rets[r][i].move, GameAfter(run[r].request)))
            => /\ run[r].pc = "done"
               /\ result[r] =
                     RequestError(EngineSentIllegalMove(to_uci(rets[r][i].move)))
               /\ Len(calls[r]) = i

\* After a caller's move the engine proposed a move that starts on another
\* square, and the run ended with the error.
C4_Witness ==
    \E r \in Slots :
        /\ run[r].request.move # UciNull
        /\ Len(rets[r]) = 2
        /\ rets[r][2].ok
        /\ ~LegalMoveIn(rets[r][2].move, GameAfter(run[r].request))
        /\ result[r].tag = "RequestError"

\* ---------------------------------------------------------------------- C5
\* C5: the engine calls of a run are a prefix of: observe_move(caller's move,
\* position after it) unless the move is null, one propose call on the
\* position after the caller's move, observe_move(proposed move, position
\* after it).  Each call follows the success of the one before, and a
\* Response is produced only after all of them have succeeded.
C5_CallsFollowThePlan ==
    \A r \in Slots :
        LET q == run[r].request
            k == Before(q)
            n == Len(calls[r])
        IN Started(r) =>
            /\ n <= k + 2
            /\ Len(rets[r]) <= n /\ n <= Len(rets[r]) + 1
            /\ \A i \in 2..n : rets[r][i - 1].ok
            /\ \A i \in 1..n : IsPropose(calls[r][i]) <=> i = k + 1
            /\ (k = 1 /\ n >= 1) =>
                  /\ calls[r][1].move = CallerMove(q)
                  /\ calls[r][1].pos = GameAfter(q)
            /\ n >= k + 1 => calls[r][k + 1].pos = GameAfter(q)
            /\ n >= k + 2 =>
                  /\ calls[r][k + 2].move = rets[r][k + 1].move
                  /\ calls[r][k + 2].pos = rets[r][k + 1].move.to
            /\ result[r].tag = "Ok" =>
                  /\ n = k + 2 /\ Len(rets[r]) = n
                  /\ \A i \in 1..n : rets[r][i].ok

\* A run that made all three calls and produced a Response.
C5_Witness ==
    \E r \in Slots :
        /\ Len(calls[r]) = 3
        /\ result[r].tag = "Ok"
        /\ calls[r][3].pos # calls[r][2].pos

\* ---------------------------------------------------------------------- C6
\* C6: when an engine call returns an error the run ends with
\* EngineError(that error): it is the run's last engine call and no Response
\* or request-level error takes its place.
C6_EngineErrorEndsTheRun ==
    \A r \in Slots : \A i \in DOMAIN rets[r] :
        ~rets[r][i].ok
            => /\ run[r].pc = "done"
               /\ result[r] = EngineError(rets[r][i].why)
               /\ i = Len(rets[r])
               /\ Len(calls[r]) = i

\* The engine's own move was observed with an error after two successful
\* calls, and the run ended with that error.
C6_Witness ==
    \E r \in Slots :
        /\ Len(rets[r]) = 3
        /\ ~rets[r][3].ok
        /\ result[r] = EngineError("E2")

\* ---------------------------------------------------------------------- C8
\* C8: a seed the request supplies is the seed passed to the corresponding
\* engine call (observe_mine_rand: the caller's move; produce_rand: the
\* propose call; observe_your_rand: the engine's own move), and the three
\* seeds a Response reports are the seeds those calls were passed.
C8_SeedsPassedAndReported ==
    \A r \in Slots :
        LET q == run[r].request
            k == Before(q)
            n == Len(calls[r])
        IN Started(r) =>
            /\ (k = 1 /\ n >= 1 /\ IsSome(q.observe_mine_rand)) =>
                  calls[r][1].rand = Unwrap(q.observe_mine_rand)
            /\ (n >= k + 1 /\ IsSome(q.produce_rand)) =>
                  calls[r][k + 1].rand = Unwrap(q.produce_rand)
            /\ (n >= k + 2 /\ IsSome(q.observe_your_rand)) =>
                  calls[r][k + 2].rand = Unwrap(q.observe_your_rand)
            /\ result[r].tag = "Ok" =>
                  /\ result[r].response.observe_other_rand_used =
                        IF k = 1 THEN Some(calls[r][1].rand) ELSE None
                  /\ result[r].response.produce_rand_used = calls[r][k + 1].rand
                  /\ result[r].response.observe_mine_rand_used =
                        calls[r][k + 2].rand

\* A Response to a request that supplied only the seed of the propose call,
\* where the three seeds used are not all the same.
C8_Witness ==
    \E r \in Slots :
        LET q == run[r].request IN
        /\ result[r].tag = "Ok"
        /\ q.move # UciNull
        /\ IsSome(q.produce_rand)
        /\ q.observe_mine_rand = None /\ q.observe_your_rand = None
        /\ result[r].response.produce_rand_used #
              result[r].response.observe_mine_rand_used
        /\ result[r].response.observe_other_rand_used #
              Some(result[r].response.produce_rand_used)

\* ---------------------------------------------------------------------- C7
\* C7: with a deterministic engine, two runs of the same request in which all
\* three seeds are supplied end with the same result, on separate engine
\* instances or on one.
C7_SameRequestSameResult ==
    \A r, s \in Slots :
        LET q == run[r].request IN
        (/\ r # s
         /\ run[r].pc = "done" /\ run[s].pc = "done"
         /\ run[s].request = q
         /\ IsSome(q.observe_mine_rand)
         /\ IsSome(q.produce_rand)
         /\ IsSome(q.observe_your_rand))
            => result[r] = result[s]

\* Two finished runs of one all-seeds request on two engine instances, both
\* answered with a Response after observing the caller's move.
C7_Witness ==
    \E r, s \in Slots :
        /\ r # s
        /\ run[r].e # run[s].e
        /\ run[r].request = run[s].request
        /\ IsSome(run[r].request.produce_rand)
        /\ run[r].request.move # UciNull
        /\ result[r].tag = "Ok" /\ result[s].tag = "Ok"

\* --------------------------------------------------------------------- C11
\* C11: a Response is assembled from the run's own values: move is the
\* proposed move in UCI form, game_after is game_before with the caller's
\* move (if not null) and then the proposed move applied, and engine_state is
\* the request's engine_state as the run's observe_move calls left it: each
\* call is passed the state the call before it left, the propose call leaves
\* it as it is.  From the first square with a null move and an engine
\* proposing a step of one, move is that step and game_after the next square.
C11_ResponseAssembled ==
    \A r \in Slots :
        LET q == run[r].request
            k == Before(q)
            m == rets[r][k + 1].move
            resp == result[r].response
        IN result[r].tag = "Ok" =>
            /\ resp.move = UciNormal(m.to - m.from)
            /\ LegalMoveIn(m, GameAfter(q))
            /\ resp.game_after = GameAfter(q) + resp.move.d
            /\ calls[r][1].state = q.engine_state
            /\ k = 1 => calls[r][2].state = rets[r][1].state
            /\ calls[r][k + 2].state = calls[r][k + 1].state
            /\ resp.engine_state = rets[r][k + 2].state
            /\ (q.move = UciNull /\ q.game_before = 0 /\ m = [from |-> 0, to |-> 1])
                  => (resp.move = UciNormal(1) /\ resp.game_after = 1)

\* A Response to a caller's move from the first square in which both
\* observations changed the state.
C11_Witness ==
    \E r \in Slots :
        /\ result[r].tag = "Ok"
        /\ run[r].request.move # UciNull
        /\ run[r].request.game_before = 0
        /\ rets[r][1].state # run[r].request.engine_state
        /\ rets[r][3].state # rets[r][1].state
        /\ result[r].response.game_after = 2

\* A Response to a null move from the first square answered by a step of one.
FirstMoveScenario ==
    \E r \in Slots :
        /\ result[r].tag = "Ok"
        /\ run[r].request.move = UciNull
        /\ run[r].request.game_before = 0
        /\ result[r].response.move = UciNormal(1)
        /\ result[r].response.game_after = 1

\* --------------------------------------------------------------------- C12
\* C12: the propose step calls propose_move when with_status_info is true and
\* propose_move_without_info when it is false, once; a Response carries
\* status_info (the one the engine returned) exactly when with_status_info is
\* true; and with or without status info a legal proposal is followed by the
\* observation of the engine's move.
C12_StatusInfoOnRequest ==
    \A r \in Slots :
        LET q == run[r].request
            k == Before(q)
            n == Len(calls[r])
        IN Started(r) =>
            /\ \A i \in 1..n :
                  /\ calls[r][i].op = "propose_move"
                        <=> (i = k + 1 /\ q.with_status_info)
                  /\ calls[r][i].op = "propose_move_without_info"
                        <=> (i = k + 1 /\ ~q.with_status_info)
            /\ result[r].tag = "Ok" =>
                  /\ IsSome(result[r].response.status_info) <=> q.with_status_info
                  /\ q.with_status_info =>
                        result[r].response.status_info = Some(rets[r][k + 1].info)
            /\ (/\ run[r].pc = "done"
                /\ Len(rets[r]) >= k + 1
                /\ rets[r][k + 1].ok
                /\ LegalMoveIn(rets[r][k + 1].move, GameAfter(q)))
                  => (n = k + 2 /\ IsObserve(calls[r][n]))

\* A Response with the engine's second kind of status info, after a call of
\* propose_move.
C12_Witness ==
    \E r \in Slots :
        /\ result[r].tag = "Ok"
        /\ run[r].request.with_status_info
        /\ result[r].response.status_info = Some("i2")
        /\ \E i \in DOMAIN calls[r] : calls[r][i].op = "propose_move"

\* --------------------------------------------------------------------- C13
\* C13: every outcome of handle_move maps to one transport status: a Response
\* to 200 with the Response as body, a request-level error to 400 with the
\* error as body, an engine error to 500 with a body holding the error's
\* text; nothing is sent before handle_move has returned.
C13_OneStatusPerOutcome ==
    \A r \in Slots :
        /\ result[r].tag = "NoResult" => http[r] = NoResponse
        /\ result[r].tag = "Ok" =>
              http[r] = [status |-> 200, body |-> result[r].response]
        /\ result[r].tag = "RequestError" =>
              /\ http[r] = [status |-> 400, body |-> result[r].what]
              /\ result[r].what.kind \in
                    {"PositionMoveMismatch", "EngineSentIllegalMove"}
        /\ result[r].tag = "EngineError" =>
              http[r] = [status |-> 500,
                         body |-> [error_text |-> to_string(result[r].why)]]
        /\ http[r].status \in {0, 200, 400, 500}

\* An engine error has been answered with status 500 and its text.
C13_Witness ==
    \E r \in Slots :
        /\ result[r] = EngineError("E2")
        /\ http[r].status = 500
        /\ http[r].body.error_text = "search failed"

\* --------------------------------------------------------------------- C14
\* The state a run holds by its own request and its own engine calls: the
\* state its last successful observe_move left, else the request's.
OwnState(r) ==
    LET seen == {i \in DOMAIN rets[r] : IsObserve(calls[r][i]) /\ rets[r][i].ok}
    IN IF seen = {} THEN run[r].request.engine_state
       ELSE rets[r][CHOOSE i \in seen : \A j \in seen : j <= i].state

\* C14: under any interleaving of concurrent requests, the state and position
\* passed to each engine call of a request, and the engine_state and
\* game_after of its Response, come from that request's own engine_state,
\* game_before and move and from the results of its own engine calls; the
\* state a run holds is never what another request's observe_move left.
C14_NoAliasingAcrossRequests ==
    \A r \in Slots :
        LET q == run[r].request
            k == Before(q)
            n == Len(calls[r])
        IN Started(r) =>
            /\ run[r].state = OwnState(r)
            /\ n >= 1 => calls[r][1].state = q.engine_state
            /\ (k = 1 /\ n >= 2) => calls[r][2].state = rets[r][1].state
            /\ n >= k + 2 => calls[r][k + 2].state = calls[r][k + 1].state
            /\ \A i \in 1..n :
                  calls[r][i].pos = IF i <= k + 1 THEN GameAfter(q)
                                    ELSE rets[r][k + 1].move.to
            /\ result[r].tag = "Ok" =>
                  /\ result[r].response.engine_state = rets[r][k + 2].state
                  /\ result[r].response.game_after = rets[r][k + 1].move.to

\* Two requests on one engine instance, interleaved: one is inside an engine
\* call after the other has made a call and before the other has ended, and
\* the two runs hold different states.
C14_Witness ==
    \E r, s \in Slots :
        /\ r # s /\ SameEngine(r, s)
        /\ InCall(r) /\ Len(rets[r]) >= 1
        /\ ~Ended(s) /\ Len(rets[s]) >= 1
        /\ run[r].state # run[s].state
        /\ calls[r][Len(calls[r])].state = run[r].state

\* --------------------------------------------------------------------- C15
\* C15: the metadata query can always complete, also while a move request
\* holds the engine mutex; its reply is 200 with the static get_info()
\* output; and a step that changes a metadata reply leaves the mutex, every
\* handle_move run, every engine call and result, and the engine's answers as
\* they were, so that whatever a move request could do before it can do after.
C15_MetadataWithoutTheEngine ==
    /\ [](\A e \in Engines :
            /\ ENABLED GetInfo(e)
            /\ metadata[e] \in {NoResponse, [status |-> 200, body |-> get_info]})
    /\ [][metadata' # metadata =>
            UNCHANGED << run, mutex, calls, rets, result, http, clients, budget,
                         det, memo >>]_vars

\* A metadata query has been answered on an engine instance whose mutex a
\* move request holds inside an engine call, and another can be answered.
C15_Witness ==
    \E r \in Slots :
        /\ InCall(r) /\ mutex[run[r].e]
        /\ metadata[run[r].e] = [status |-> 200, body |-> get_info]
        /\ ENABLED GetInfo(run[r].e)

\* --------------------------------------------------------------------- C16
\* A run returned: handle_move ran to one of its return statements.
Returned(r) == run[r].pc = "done"

\* A run that is neither ended nor stuck: it, or a run holding the mutex it
\* waits for, can take a step of its own.
CanProceed(r) ==
    \E s \in Slots :
        /\ run[s].e = run[r].e
        /\ \/ ENABLED LockObserveOther(s)
           \/ ENABLED ObserveOtherReturn(s)
           \/ ENABLED LockPropose(s)
           \/ ENABLED ProposeReturn(s)
           \/ ENABLED LockObserveMine(s)
           \/ ENABLED ObserveMineReturn(s)

C17_ReplayYieldsTheSameResponse ==
    \A r, s \in Slots :
        (/\ r # s
         /\ result[r].tag = "Ok"
         /\ Returned(s)
         /\ run[s].request = Replay(run[r].request, result[r].response))
            => /\ result[s] = result[r]
               /\ http[s] = http[r]

\* A request that omitted all three seeds and carried a move got a Response
\* reporting a generated seed other than zero, and its replay, served by
\* another engine instance, has returned.
C17_Witness ==
    \E r, s \in Slots :
        /\ r # s
        /\ result[r].tag = "Ok"
        /\ run[r].request.move # UciNull
        /\ run[r].request.observe_mine_rand = None
        /\ run[r].request.produce_rand = None
        /\ run[r].request.observe_your_rand = None
        /\ result[r].response.observe_other_rand_used = Some(1)
        /\ result[r].response.produce_rand_used = 1
        /\ run[s].request = Replay(run[r].request, result[r].response)
        /\ run[s].request # run[r].request
        /\ run[s].e # run[r].e
        /\ Returned(s) /\ result[s].tag = "Ok"

\* The same for a request that carried no move: its Response reports no seed
\* for the observation that was skipped, and the replay omits that seed.
ReplayOfFirstMove ==
    \E r, s \in Slots :
        /\ r # s
        /\ result[r].tag = "Ok"
        /\ run[r].request.move = UciNull
        /\ run[r].request.produce_rand = None
        /\ run[s].request = Replay(run[r].request, result[r].response)
        /\ run[s].request.observe_mine_rand = None
        /\ Returned(s) /\ result[s].tag = "Ok"

====
